---- MODULE Spec2Model ----
(***************************************************************************)
(* A small-step model of the Scheme evaluator core: scheme_classes.py      *)
(* (Frame, procedures, Promise), scheme_eval_apply.py (scheme_eval,        *)
(* scheme_apply, eval_all, complete_apply, optimize_tail_calls) and        *)
(* scheme_forms.py (the special forms).  The Python call stack is explicit *)
(* (pystack): every step of the model is the code between two calls or     *)
(* returns of the interpreter's own functions.                             *)
(***************************************************************************)
EXTENDS Integers, Sequences, FiniteSets, TLC

VARIABLES
    prog,          \* the top-level expressions handed to the evaluator
    idx,           \* position of the next top-level expression
    results,       \* value (or error) of each top-level expression so far
    pending,       \* a top-level evaluation has been started and not yet reported
    DOTS_ARE_CONS, \* builtins.DOTS_ARE_CONS, the global mode flag
    frames,        \* heap of Frame objects: [bindings, parent]
    promises,      \* heap of Promise objects: [expression, env, value]
    stack,         \* the trace stack shared by all frames (Frame.stack)
    pystack,       \* activations of the interpreter's Python functions
    ret,           \* value returned by the activation that returned last
    exc,           \* the SchemeError being propagated to the host, or NoExc
    evaluations    \* history: per promise, how often line 181 evaluated its expression

vars == <<prog, idx, results, pending, DOTS_ARE_CONS, frames, promises, stack,
          pystack, ret, exc, evaluations>>

----------------------------------------------------------------------------
(* Bounds of the model *)

\* largest argument n of the tail-recursive (loop n) programs
MaxN == 3
\* largest number of argument values in the generated procedure calls
MaxArgs == 3
\* largest number of non-variadic formals in the generated procedure calls
MaxFormals == 2
\* largest number of clauses in the generated cond forms
MaxClauses == 3

----------------------------------------------------------------------------
(* Values: tagged tuples, the tag first *)

Num(k) == <<"num", k>>
Bool(b) == <<"bool", b>>
Sym(s) == <<"sym", s>>
nil == <<"nil">>
Pair(first, rest) == <<"pair", first, rest>>
None == <<"None">>
LambdaProcedure(formals, body, env) == <<"lambda", formals, body, env>>
MuProcedure(formals, body) == <<"mu", formals, body>>
MacroProcedure(formals, body, env) == <<"macro", formals, body, env>>
BuiltinProcedure(name) == <<"builtin", name>>
PromiseRef(id) == <<"promise", id>>
Unevaluated(expr, env) == <<"unevaluated", expr, env>>
SchemeError(msg, what) == <<"SchemeError", msg, what>>
NoExc == <<"NoExc">>

Tag(v) == v[1]
IsPair(v) == Tag(v) = "pair"
IsUnevaluated(v) == Tag(v) = "unevaluated"
IsError(v) == Tag(v) = "SchemeError"

RECURSIVE List(_)
\* the Scheme list of the elements of a sequence
List(s) == IF s = <<>> THEN nil ELSE Pair(Head(s), List(Tail(s)))

RECURSIVE Elems(_)
\* the sequence of the elements of a proper Scheme list
Elems(l) == IF IsPair(l) THEN <<l[2]>> \o Elems(l[3]) ELSE <<>>

\* scheme_utils
scheme_symbolp(x) == Tag(x) = "sym"

self_evaluating(x) ==
    Tag(x) \in {"num", "bool", "nil", "builtin", "lambda", "mu", "macro", "promise"}

RECURSIVE scheme_listp(_)
scheme_listp(x) ==
    IF x = nil THEN TRUE
    ELSE IF IsPair(x) THEN scheme_listp(x[3])
    ELSE FALSE

scheme_procedurep(x) == Tag(x) \in {"builtin", "lambda", "mu", "macro"}

is_scheme_true(v) == v # Bool(FALSE)
is_scheme_false(v) == v = Bool(FALSE)

RECURSIVE len(_)
\* Pair.__len__ on proper lists; nil has length 0
len(l) == IF IsPair(l) THEN 1 + len(l[3]) ELSE 0

NoMax == -1

\* validate_form(expr, min, max): "" when the form is well shaped
validate_form(expr, min, max) ==
    IF ~scheme_listp(expr) THEN "badly formed expression"
    ELSE IF len(expr) < min THEN "too few operands in form"
    ELSE IF max # NoMax /\ len(expr) > max THEN "too many operands in form"
    ELSE ""

\* the variadic marker of a formals list: the list (variadic name)
scheme_variadic_symbolp(x) ==
    /\ IsPair(x)
    /\ x[2] = Sym("variadic")
    /\ IsPair(x[3])
    /\ scheme_symbolp(x[3][2])
    /\ x[3][3] = nil

scheme_variadic_symbol(x) == x[3][2]

\* validate_formals(formals): symbols (the last one may be a variadic marker),
\* pairwise distinct
validate_formals(formals) ==
    LET fs == Elems(formals)
        name(i) == IF scheme_variadic_symbolp(fs[i])
                   THEN scheme_variadic_symbol(fs[i]) ELSE fs[i]
    IN  IF ~scheme_listp(formals) THEN "badly formed expression"
        ELSE IF \E i \in 1..Len(fs) :
                   ~(\/ scheme_symbolp(fs[i])
                     \/ (i = Len(fs) /\ scheme_variadic_symbolp(fs[i])))
        THEN "non-symbol"
        ELSE IF \E i, j \in 1..Len(fs) : i < j /\ name(i) = name(j)
        THEN "duplicate symbol"
        ELSE ""

----------------------------------------------------------------------------
(* Environments: scheme_classes.py, class Frame *)

\* Frame.__init__: an empty frame with the given parent (0 is None)
Frame(parent) == [bindings |-> <<>>, parent |-> parent]

\* Frame.define on a bindings dictionary; the key is the symbol's name
define(bindings, symbol, value) ==
    [x \in (DOMAIN bindings) \cup {symbol[2]} |->
        IF x = symbol[2] THEN value ELSE bindings[x]]

RECURSIVE lookup(_, _, _)
\* Frame.lookup: the first binding of symbol on the chain e -> parent -> ...
lookup(fs, e, symbol) ==
    IF e = 0 THEN SchemeError("unknown identifier", symbol[2])
    ELSE IF symbol[2] \in DOMAIN fs[e].bindings THEN fs[e].bindings[symbol[2]]
    ELSE lookup(fs, fs[e].parent, symbol)

\* what a Frame method hands back: the error raised (NoExc when none) and the
\* heap or the bindings it produced
Raised(e) == [err |-> e, out |-> <<>>]
Done(x) == [err |-> NoExc, out |-> x]

\* a faulty Frame.rebind: the symbol is bound in the frame rebind is called on
rebind_here(fs, e, symbol, value) ==
    Done([fs EXCEPT ![e].bindings = define(fs[e].bindings, symbol, value)])

RECURSIVE rebind(_, _, _, _)
\* Frame.rebind: the heap after rebinding, or the error
rebind(fs, e, symbol, value) ==
    IF e = 0 THEN Raised(SchemeError("unknown identifier", symbol[2]))
    ELSE IF symbol[2] \in DOMAIN fs[e].bindings
    THEN Done([fs EXCEPT ![e].bindings = define(fs[e].bindings, symbol, value)])
    ELSE rebind(fs, fs[e].parent, symbol, value)

RECURSIVE bind_formals(_, _, _)
\* Frame.make_child_frame from its while loop on: the child's bindings, or the error
bind_formals(formals, vals, child) ==
    IF formals # nil /\ vals # nil
    THEN IF scheme_variadic_symbolp(formals[2])
         THEN IF formals[3] # nil
              THEN Raised(SchemeError("AssertionError", "should have been caught earlier"))
              ELSE Done(define(child, scheme_variadic_symbol(formals[2]), vals))
         ELSE IF vals = nil
         THEN Raised(SchemeError("too few arguments to function call", ""))
         ELSE bind_formals(formals[3], vals[3], define(child, formals[2], vals[2]))
    ELSE IF formals # nil /\ scheme_variadic_symbolp(formals[2])
    THEN IF formals[3] # nil
         THEN Raised(SchemeError("AssertionError", "should have been caught earlier"))
         ELSE Done(define(child, scheme_variadic_symbol(formals[2]), vals))
    ELSE IF formals # nil \/ vals # nil
    THEN Raised(SchemeError("Incorrect number of arguments to function call", ""))
    ELSE Done(child)

\* Frame.make_child_frame: the bindings of the new child frame, or the error
make_child_frame(formals, vals) ==
    IF len(formals) # len(vals)
    THEN Raised(SchemeError("Incorrect number of arguments to function call", ""))
    ELSE bind_formals(formals, vals, Frame(0).bindings)

----------------------------------------------------------------------------
(* The host's primitive procedures bound in the global frame *)

BuiltinNames == {"+", "-", "=", "list", "force"}

RECURSIVE Sum(_)
Sum(s) == IF s = <<>> THEN 0 ELSE Head(s)[2] + Sum(Tail(s))

AllNumbers(args) == \A i \in 1..Len(args) : Tag(args[i]) = "num"

\* py_func of the pure builtins on the argument values; force is applied by
\* Promise.evaluate
py_func(name, args) ==
    CASE name = "list" -> List(args)
      [] name = "+" ->
            IF AllNumbers(args) THEN Num(Sum(args))
            ELSE SchemeError("operand is not a number", name)
      [] name = "-" ->
            IF Len(args) = 0 THEN SchemeError("incorrect number of arguments", name)
            ELSE IF ~AllNumbers(args) THEN SchemeError("operand is not a number", name)
            ELSE IF Len(args) = 1 THEN Num(0 - args[1][2])
            ELSE Num(args[1][2] - Sum(Tail(args)))
      [] name = "=" ->
            IF Len(args) # 2 THEN SchemeError("incorrect number of arguments", name)
            ELSE IF ~AllNumbers(args) THEN SchemeError("operand is not a number", name)
            ELSE Bool(args[1][2] = args[2][2])
      [] OTHER -> SchemeError("incorrect number of arguments", name)

\* create_global_frame: the global frame with the builtins bound
GlobalFrame ==
    [bindings |-> [n \in BuiltinNames |-> BuiltinProcedure(n)], parent |-> 0]

----------------------------------------------------------------------------
(* The Python call stack *)

host == <<prog, idx, results, pending, DOTS_ARE_CONS>>

\* scheme_forms.SPECIAL_FORMS: the handler of each special-form symbol
SPECIAL_FORMS ==
    [f \in {"and", "begin", "cond", "define", "if", "lambda", "let", "or", "quote",
            "define-macro", "quasiquote", "unquote", "mu", "cons-stream", "delay",
            "set!", "unquote-splicing", "variadic", "expect", "!"} |->
        CASE f = "and" -> "do_and_form"
          [] f = "begin" -> "do_begin_form"
          [] f = "cond" -> "do_cond_form"
          [] f = "define" -> "do_define_form"
          [] f = "if" -> "do_if_form"
          [] f = "lambda" -> "do_lambda_form"
          [] f = "let" -> "do_let_form"
          [] f = "or" -> "do_or_form"
          [] f = "quote" -> "do_quote_form"
          [] f = "define-macro" -> "do_define_macro"
          [] f = "quasiquote" -> "do_quasiquote_form"
          [] f = "unquote" -> "do_unquote"
          [] f = "mu" -> "do_mu_form"
          [] f = "cons-stream" -> "do_cons_stream_form"
          [] f = "delay" -> "do_delay_form"
          [] f = "set!" -> "do_set_form"
          [] f = "unquote-splicing" -> "do_unquote"
          [] f = "variadic" -> "do_variadic"
          [] f = "expect" -> "do_expect"
          [] OTHER -> "do_case"]

\* a new activation of each function, at its first line
optimized_eval(expr, env, tail) ==
    [fn |-> "optimized_eval", pc |-> "start", expr |-> expr, env |-> env,
     tail |-> tail, result |-> None]
scheme_eval(expr, env) ==
    [fn |-> "scheme_eval", pc |-> "start", expr |-> expr, env |-> env,
     procedure |-> None, operands |-> nil, args |-> <<>>]
scheme_apply(procedure, args, env) ==
    [fn |-> "scheme_apply", pc |-> "start", procedure |-> procedure,
     args |-> args, env |-> env]
complete_apply(procedure, args, env) ==
    [fn |-> "complete_apply", pc |-> "start", procedure |-> procedure,
     args |-> args, env |-> env]
eval_all(expressions, env) ==
    [fn |-> "eval_all", pc |-> "start", expressions |-> expressions,
     env |-> env, value |-> None]
Promise_evaluate(self) ==
    [fn |-> "Promise.evaluate", pc |-> "start", self |-> self]
special_form(handler, expressions, env) ==
    [fn |-> handler, pc |-> "start", expressions |-> expressions, env |-> env,
     names |-> nil, vals |-> nil, bindings |-> nil, value |-> None]

Top == pystack[Len(pystack)]
Below == SubSeq(pystack, 1, Len(pystack) - 1)
At(fn, pc) == pystack # <<>> /\ Top.fn = fn /\ Top.pc = pc

\* the running activation becomes caller and calls callee
Call(caller, callee) ==
    /\ pystack' = Append(Append(Below, caller), callee)
    /\ UNCHANGED <<ret, exc>>
\* the running activation returns v to its caller
Return(v) ==
    /\ pystack' = Below
    /\ ret' = v
    /\ UNCHANGED exc
\* the running activation raises e: no modelled function catches it, so the
\* whole call stack unwinds to the host
Raise(e) ==
    /\ pystack' = <<>>
    /\ exc' = e
    /\ UNCHANGED ret

----------------------------------------------------------------------------
(* scheme_eval_apply.py *)

\* a faulty optimized_eval: tail is ignored, so a tail call is evaluated by a
\* nested call of the unwrapped eval
OptimizedEvalEnterNested ==
    /\ At("optimized_eval", "start")
    /\ Call([Top EXCEPT !.pc = "loop", !.result = Unevaluated(Top.expr, Top.env)],
            scheme_eval(Top.expr, Top.env))
    /\ UNCHANGED <<host, frames, promises, stack, evaluations>>

\* optimized_eval, lines 126-131 up to the first call of the unwrapped eval
OptimizedEvalEnter ==
    /\ At("optimized_eval", "start")
    /\ LET a == Top IN
       IF a.tail /\ ~scheme_symbolp(a.expr) /\ ~self_evaluating(a.expr)
       THEN Return(Unevaluated(a.expr, a.env))
       ELSE Call([a EXCEPT !.pc = "loop", !.result = Unevaluated(a.expr, a.env)],
                 scheme_eval(a.expr, a.env))
    /\ UNCHANGED <<host, frames, promises, stack, evaluations>>

\* a faulty optimized_eval: the loop is left after the first turn, whatever the
\* unwrapped eval returned
OptimizedEvalLoopOnce ==
    /\ At("optimized_eval", "loop")
    /\ Return(ret)
    /\ UNCHANGED <<host, frames, promises, stack, evaluations>>

\* optimized_eval, lines 130-132: the trampoline loop after the unwrapped eval returned
OptimizedEvalLoop ==
    /\ At("optimized_eval", "loop")
    /\ LET a == Top
           result == ret
       IN  IF IsUnevaluated(result)
           THEN Call([a EXCEPT !.result = result], scheme_eval(result[2], result[3]))
           ELSE Return(result)
    /\ UNCHANGED <<host, frames, promises, stack, evaluations>>

\* scheme_eval, lines 22-41: push on the trace stack, atoms, dispatch
SchemeEvalEnter ==
    /\ At("scheme_eval", "start")
    /\ LET a == Top
           expr == a.expr
           env == a.env
       IN  IF scheme_symbolp(expr)
           THEN LET result == lookup(frames, env, expr) IN
                IF IsError(result)
                THEN Raise(result) /\ stack' = Append(stack, expr)
                ELSE Return(result) /\ UNCHANGED stack
           ELSE IF self_evaluating(expr)
           THEN Return(expr) /\ UNCHANGED stack
           ELSE IF ~scheme_listp(expr)
           THEN Raise(SchemeError("malformed list", expr)) /\ stack' = Append(stack, expr)
           ELSE LET first == expr[2]
                    rest == expr[3]
                IN  /\ stack' = Append(stack, expr)
                    /\ IF scheme_symbolp(first) /\ first[2] \in DOMAIN SPECIAL_FORMS
                       THEN Call([a EXCEPT !.pc = "after_form"],
                                 special_form(SPECIAL_FORMS[first[2]], rest, env))
                       ELSE Call([a EXCEPT !.pc = "after_operator"],
                                 optimized_eval(first, env, FALSE))
    /\ UNCHANGED <<host, frames, promises, evaluations>>

\* scheme_eval, lines 37-39: the special form's handler returned
SchemeEvalForm ==
    /\ At("scheme_eval", "after_form")
    /\ stack' = SubSeq(stack, 1, Len(stack) - 1)
    /\ Return(ret)
    /\ UNCHANGED <<host, frames, promises, evaluations>>

\* scheme_eval, lines 41-46: the operator's value arrived; a macro is expanded,
\* otherwise rest.map starts on the first operand
SchemeEvalOperator ==
    /\ At("scheme_eval", "after_operator")
    /\ LET a == Top
           procedure == ret
           rest == a.expr[3]
       IN  IF Tag(procedure) = "macro"
           THEN Call([a EXCEPT !.pc = "after_expand", !.procedure = procedure],
                     complete_apply(procedure, rest, a.env))
           ELSE IF rest = nil
           THEN Call([a EXCEPT !.pc = "after_apply", !.procedure = procedure],
                     scheme_apply(procedure, nil, a.env))
           ELSE Call([a EXCEPT !.pc = "operands", !.procedure = procedure,
                               !.operands = rest[3]],
                     optimized_eval(rest[2], a.env, FALSE))
    /\ UNCHANGED <<host, frames, promises, stack, evaluations>>

\* a faulty scheme_eval: the argument list is built in reverse
SchemeEvalOperandsReversed ==
    /\ At("scheme_eval", "operands")
    /\ LET a == Top
           args == <<ret>> \o a.args
       IN  IF a.operands = nil
           THEN Call([a EXCEPT !.pc = "after_apply", !.args = args],
                     scheme_apply(a.procedure, List(args), a.env))
           ELSE Call([a EXCEPT !.args = args, !.operands = a.operands[3]],
                     optimized_eval(a.operands[2], a.env, FALSE))
    /\ UNCHANGED <<host, frames, promises, stack, evaluations>>

\* scheme_eval, lines 45-46: rest.map took one operand's value; it goes on with
\* the next operand or, after the last, scheme_apply is called
SchemeEvalOperands ==
    /\ At("scheme_eval", "operands")
    /\ LET a == Top
           args == Append(a.args, ret)
       IN  IF a.operands = nil
           THEN Call([a EXCEPT !.pc = "after_apply", !.args = args],
                     scheme_apply(a.procedure, List(args), a.env))
           ELSE Call([a EXCEPT !.args = args, !.operands = a.operands[3]],
                     optimized_eval(a.operands[2], a.env, FALSE))
    /\ UNCHANGED <<host, frames, promises, stack, evaluations>>

\* scheme_eval, lines 46-48: scheme_apply returned
SchemeEvalApplied ==
    /\ At("scheme_eval", "after_apply")
    /\ stack' = SubSeq(stack, 1, Len(stack) - 1)
    /\ Return(ret)
    /\ UNCHANGED <<host, frames, promises, evaluations>>

\* scheme_eval, lines 43-44: the macro's expansion arrived and is evaluated in env
SchemeEvalExpanded ==
    /\ At("scheme_eval", "after_expand")
    /\ LET a == Top IN
       Call([a EXCEPT !.pc = "after_reeval", !.expr = ret],
            optimized_eval(ret, a.env, FALSE))
    /\ UNCHANGED <<host, frames, promises, stack, evaluations>>

\* scheme_eval, line 44: the value of the expansion is returned
SchemeEvalReevaluated ==
    /\ At("scheme_eval", "after_reeval")
    /\ Return(ret)
    /\ UNCHANGED <<host, frames, promises, stack, evaluations>>

\* a faulty scheme_apply: every activation frame is a child of the caller's frame
activation_parent_caller(procedure, env) == env

\* scheme_apply, lines 68 and 71: the frame whose child the activation frame is
activation_parent(procedure, env) ==
    IF Tag(procedure) = "mu" THEN env ELSE procedure[4]

\* scheme_apply, lines 53-72
SchemeApplyEnter ==
    /\ At("scheme_apply", "start")
    /\ LET a == Top
           procedure == a.procedure
       IN  IF ~scheme_procedurep(procedure)
           THEN Raise(SchemeError("not callable", procedure)) /\ UNCHANGED frames
           ELSE IF Tag(procedure) = "builtin"
           THEN /\ UNCHANGED frames
                /\ IF procedure[2] = "force"
                   THEN IF len(a.args) # 1
                        THEN Raise(SchemeError("incorrect number of arguments", "force"))
                        ELSE IF Tag(a.args[2]) # "promise"
                        THEN Raise(SchemeError("argument 0 of force has wrong type", a.args[2]))
                        ELSE Call([a EXCEPT !.pc = "after_call"],
                                  Promise_evaluate(a.args[2][2]))
                   ELSE LET value == py_func(procedure[2], Elems(a.args)) IN
                        IF IsError(value) THEN Raise(value) ELSE Return(value)
           ELSE LET child == make_child_frame(procedure[2], a.args)
                    new_env == Len(frames) + 1
                IN  IF child.err # NoExc
                    THEN Raise(child.err) /\ UNCHANGED frames
                    ELSE /\ frames' = Append(frames,
                                [bindings |-> child.out,
                                 parent |-> activation_parent(procedure, a.env)])
                         /\ Call([a EXCEPT !.pc = "after_call"],
                                 eval_all(procedure[3], new_env))
    /\ UNCHANGED <<host, promises, stack, evaluations>>

\* scheme_apply, lines 64, 69, 72: the value of the call is returned
SchemeApplyReturn ==
    /\ At("scheme_apply", "after_call")
    /\ Return(ret)
    /\ UNCHANGED <<host, frames, promises, stack, evaluations>>

\* complete_apply, lines 113-114
CompleteApplyEnter ==
    /\ At("complete_apply", "start")
    /\ LET a == Top IN
       IF ~scheme_procedurep(a.procedure)
       THEN Raise(SchemeError("not callable", a.procedure))
       ELSE Call([a EXCEPT !.pc = "after_apply"],
                 scheme_apply(a.procedure, a.args, a.env))
    /\ UNCHANGED <<host, frames, promises, stack, evaluations>>

\* a faulty complete_apply: an Unevaluated that scheme_apply returned is passed on
CompleteApplyValUnforced ==
    /\ At("complete_apply", "after_apply")
    /\ Return(ret)
    /\ UNCHANGED <<host, frames, promises, stack, evaluations>>

\* complete_apply, lines 115-118
CompleteApplyVal ==
    /\ At("complete_apply", "after_apply")
    /\ LET a == Top
           val == ret
       IN  IF IsUnevaluated(val)
           THEN Call([a EXCEPT !.pc = "after_eval"],
                     optimized_eval(val[2], val[3], FALSE))
           ELSE Return(val)
    /\ UNCHANGED <<host, frames, promises, stack, evaluations>>

\* complete_apply, line 116: the value of the forced Unevaluated is returned
CompleteApplyReturn ==
    /\ At("complete_apply", "after_eval")
    /\ Return(ret)
    /\ UNCHANGED <<host, frames, promises, stack, evaluations>>

\* eval_all, lines 91-96: one turn of the loop; the value of the expression
\* evaluated last (None before the first) is in hand
EvalAllLoop(a, value) ==
    IF a.expressions = nil
    THEN Return(value)
    ELSE Call([a EXCEPT !.pc = "loop", !.value = value,
                        !.expressions = a.expressions[3]],
              optimized_eval(a.expressions[2], a.env, a.expressions[3] = nil))

\* eval_all, lines 91-94: entry
EvalAllEnter ==
    /\ At("eval_all", "start")
    /\ EvalAllLoop(Top, None)
    /\ UNCHANGED <<host, frames, promises, stack, evaluations>>

\* eval_all, lines 94-96: an expression's value arrived
EvalAllNext ==
    /\ At("eval_all", "loop")
    /\ EvalAllLoop(Top, ret)
    /\ UNCHANGED <<host, frames, promises, stack, evaluations>>

----------------------------------------------------------------------------
(* scheme_classes.py, class Promise *)

\* Promise.__init__
\* a Promise has no value attribute before it is forced
Unset == <<"unset">>
Promise(expression, env) == [expression |-> expression, env |-> env, value |-> Unset]

\* Promise.evaluate, lines 180-181 and 186
PromiseEvaluateEnter ==
    /\ At("Promise.evaluate", "start")
    /\ LET a == Top
           self == promises[a.self]
       IN  IF self.expression # None
           THEN /\ Call([a EXCEPT !.pc = "after_eval"],
                        optimized_eval(self.expression, self.env, FALSE))
                /\ evaluations' = [evaluations EXCEPT ![a.self] = @ + 1]
           ELSE /\ Return(self.value)
                /\ UNCHANGED evaluations
    /\ UNCHANGED <<host, frames, promises, stack>>

\* a faulty Promise.evaluate: the value is stored but the expression is kept
PromiseEvaluateStoreKeepsExpression ==
    /\ At("Promise.evaluate", "after_eval")
    /\ IF ~DOTS_ARE_CONS /\ ~(ret = nil \/ IsPair(ret))
       THEN /\ Raise(SchemeError("result of forcing a promise should be a pair or nil", ret))
            /\ UNCHANGED promises
       ELSE /\ promises' = [promises EXCEPT ![Top.self].value = ret]
            /\ Return(ret)
    /\ UNCHANGED <<host, frames, stack, evaluations>>

\* a faulty Promise.evaluate: the value is stored before it is checked
PromiseEvaluateStoreUnchecked ==
    /\ At("Promise.evaluate", "after_eval")
    /\ promises' = [promises EXCEPT ![Top.self].value = ret,
                                    ![Top.self].expression = None]
    /\ IF ~DOTS_ARE_CONS /\ ~(ret = nil \/ IsPair(ret))
       THEN Raise(SchemeError("result of forcing a promise should be a pair or nil", ret))
       ELSE Return(ret)
    /\ UNCHANGED <<host, frames, stack, evaluations>>

\* Promise.evaluate, lines 182-186
PromiseEvaluateStore ==
    /\ At("Promise.evaluate", "after_eval")
    /\ LET a == Top
           value == ret
       IN  IF ~DOTS_ARE_CONS /\ ~(value = nil \/ IsPair(value))
           THEN /\ Raise(SchemeError("result of forcing a promise should be a pair or nil", value))
                /\ UNCHANGED promises
           ELSE /\ promises' = [promises EXCEPT ![a.self].value = value,
                                                ![a.self].expression = None]
                /\ Return(value)
    /\ UNCHANGED <<host, frames, stack, evaluations>>

----------------------------------------------------------------------------
(* scheme_forms.py *)

control == <<host, promises, stack, evaluations>>

\* do_lambda_form: the LambdaProcedure, or the error
do_lambda_form(expressions, env) ==
    IF validate_form(expressions, 2, NoMax) # ""
    THEN SchemeError(validate_form(expressions, 2, NoMax), expressions)
    ELSE IF validate_formals(expressions[2]) # ""
    THEN SchemeError(validate_formals(expressions[2]), expressions[2])
    ELSE LambdaProcedure(expressions[2], expressions[3], env)

\* do_mu_form: the MuProcedure, or the error
do_mu_form(expressions, env) ==
    IF validate_form(expressions, 2, NoMax) # ""
    THEN SchemeError(validate_form(expressions, 2, NoMax), expressions)
    ELSE IF validate_formals(expressions[2]) # ""
    THEN SchemeError(validate_formals(expressions[2]), expressions[2])
    ELSE MuProcedure(expressions[2], expressions[3])

\* Frame.define on frame env of the heap
DefineIn(env, symbol, value) ==
    frames' = [frames EXCEPT ![env].bindings = define(@, symbol, value)]

\* do_define_form, lines 33-52 up to the evaluation of the value expression
DoDefineForm ==
    /\ At("do_define_form", "start")
    /\ LET a == Top
           expressions == a.expressions
           signature == expressions[2]
       IN  IF validate_form(expressions, 2, NoMax) # ""
           THEN Raise(SchemeError(validate_form(expressions, 2, NoMax), expressions))
                /\ UNCHANGED frames
           ELSE IF scheme_symbolp(signature)
           THEN /\ UNCHANGED frames
                /\ IF validate_form(expressions, 2, 2) # ""
                   THEN Raise(SchemeError(validate_form(expressions, 2, 2), expressions))
                   ELSE Call([a EXCEPT !.pc = "after_value"],
                             optimized_eval(expressions[3][2], a.env, FALSE))
           ELSE IF IsPair(signature) /\ scheme_symbolp(signature[2])
           THEN LET value == do_lambda_form(Pair(signature[3], expressions[3]), a.env) IN
                IF IsError(value)
                THEN Raise(value) /\ UNCHANGED frames
                ELSE DefineIn(a.env, signature[2], value) /\ Return(signature[2])
           ELSE Raise(SchemeError("non-symbol",
                                  IF IsPair(signature) THEN signature[2] ELSE signature))
                /\ UNCHANGED frames
    /\ UNCHANGED control

\* do_define_form, lines 38-40: the value arrived and is bound in env
DoDefineFormValue ==
    /\ At("do_define_form", "after_value")
    /\ DefineIn(Top.env, Top.expressions[2], ret)
    /\ Return(Top.expressions[2])
    /\ UNCHANGED control

\* do_quote_form
DoQuoteForm ==
    /\ At("do_quote_form", "start")
    /\ IF validate_form(Top.expressions, 1, 1) # ""
       THEN Raise(SchemeError(validate_form(Top.expressions, 1, 1), Top.expressions))
       ELSE Return(Top.expressions[2])
    /\ UNCHANGED <<control, frames>>

\* do_begin_form
DoBeginForm ==
    /\ At("do_begin_form", "start")
    /\ IF validate_form(Top.expressions, 1, NoMax) # ""
       THEN Raise(SchemeError(validate_form(Top.expressions, 1, NoMax), Top.expressions))
       ELSE Call([Top EXCEPT !.pc = "after_call"], eval_all(Top.expressions, Top.env))
    /\ UNCHANGED <<control, frames>>

\* do_begin_form line 74, do_let_form line 180, do_cond_form line 168,
\* do_if_form lines 99 and 101: the handler returns what its last call returned
DoFormReturn ==
    /\ pystack # <<>>
    /\ Top.fn \in {"do_begin_form", "do_let_form", "do_cond_form", "do_if_form"}
    /\ Top.pc = "after_call"
    /\ Return(ret)
    /\ UNCHANGED <<control, frames>>

\* do_lambda_form as a handler
DoLambdaForm ==
    /\ At("do_lambda_form", "start")
    /\ LET value == do_lambda_form(Top.expressions, Top.env) IN
       IF IsError(value) THEN Raise(value) ELSE Return(value)
    /\ UNCHANGED <<control, frames>>

\* do_mu_form as a handler
DoMuForm ==
    /\ At("do_mu_form", "start")
    /\ LET value == do_mu_form(Top.expressions, Top.env) IN
       IF IsError(value) THEN Raise(value) ELSE Return(value)
    /\ UNCHANGED <<control, frames>>

\* do_if_form, lines 97-98: the test is evaluated
DoIfForm ==
    /\ At("do_if_form", "start")
    /\ IF validate_form(Top.expressions, 2, 3) # ""
       THEN Raise(SchemeError(validate_form(Top.expressions, 2, 3), Top.expressions))
       ELSE Call([Top EXCEPT !.pc = "after_test"],
                 optimized_eval(Top.expressions[2], Top.env, FALSE))
    /\ UNCHANGED <<control, frames>>

\* do_if_form, lines 98-101: the branch is evaluated in tail position
DoIfFormBranch ==
    /\ At("do_if_form", "after_test")
    /\ LET a == Top
           expressions == a.expressions
       IN  IF is_scheme_true(ret)
           THEN Call([a EXCEPT !.pc = "after_call"],
                     optimized_eval(expressions[3][2], a.env, TRUE))
           ELSE IF len(expressions) = 3
           THEN Call([a EXCEPT !.pc = "after_call"],
                     optimized_eval(expressions[3][3][2], a.env, TRUE))
           ELSE Return(None)
    /\ UNCHANGED <<control, frames>>

\* do_and_form and do_or_form, lines 117-124 and 140-147: one turn of the loop;
\* stop tells whether a value ends the chain early
ShortCircuitLoop(a, value, stop) ==
    IF a.pc = "loop" /\ stop
    THEN Return(value)
    ELSE IF a.expressions = nil
    THEN Return(value)
    ELSE Call([a EXCEPT !.pc = "loop", !.expressions = a.expressions[3]],
              optimized_eval(a.expressions[2], a.env, a.expressions[3] = nil))

\* do_and_form
DoAndForm ==
    /\ pystack # <<>> /\ Top.fn = "do_and_form"
    /\ IF Top.pc = "start"
       THEN ShortCircuitLoop(Top, Bool(TRUE), FALSE)
       ELSE ShortCircuitLoop(Top, ret, is_scheme_false(ret))
    /\ UNCHANGED <<control, frames>>

\* do_or_form
DoOrForm ==
    /\ pystack # <<>> /\ Top.fn = "do_or_form"
    /\ IF Top.pc = "start"
       THEN ShortCircuitLoop(Top, Bool(FALSE), FALSE)
       ELSE ShortCircuitLoop(Top, ret, is_scheme_true(ret))
    /\ UNCHANGED <<control, frames>>

\* do_cond_form, lines 164-168: the clause's test is true
CondSelect(a, clause, test) ==
    IF len(clause) = 1
    THEN Return(test)
    ELSE Call([a EXCEPT !.pc = "after_call"], eval_all(clause[3], a.env))

\* a faulty do_cond_form: an else clause is taken wherever it stands
CondLoopAnyElse(a) ==
    IF a.expressions = nil
    THEN Return(None)
    ELSE LET clause == a.expressions[2] IN
         IF validate_form(clause, 1, NoMax) # ""
         THEN Raise(SchemeError(validate_form(clause, 1, NoMax), clause))
         ELSE IF clause[2] = Sym("else")
         THEN CondSelect(a, clause, Bool(TRUE))
         ELSE Call([a EXCEPT !.pc = "after_test"],
                   optimized_eval(clause[2], a.env, FALSE))

\* do_cond_form, lines 155-163: the head of the loop, at the clause
\* a.expressions starts with
CondLoop(a) ==
    IF a.expressions = nil
    THEN Return(None)
    ELSE LET clause == a.expressions[2] IN
         IF validate_form(clause, 1, NoMax) # ""
         THEN Raise(SchemeError(validate_form(clause, 1, NoMax), clause))
         ELSE IF clause[2] = Sym("else")
         THEN IF a.expressions[3] # nil
              THEN Raise(SchemeError("else must be last", ""))
              ELSE CondSelect(a, clause, Bool(TRUE))
         ELSE Call([a EXCEPT !.pc = "after_test"],
                   optimized_eval(clause[2], a.env, FALSE))

\* do_cond_form: entry
DoCondForm ==
    /\ At("do_cond_form", "start")
    /\ CondLoop(Top)
    /\ UNCHANGED <<control, frames>>

\* do_cond_form, lines 163-169: a clause's test value arrived
DoCondFormTest ==
    /\ At("do_cond_form", "after_test")
    /\ IF is_scheme_true(ret)
       THEN CondSelect(Top, Top.expressions[2], ret)
       ELSE CondLoop([Top EXCEPT !.expressions = Top.expressions[3]])
    /\ UNCHANGED <<control, frames>>

\* do_let_form, lines 178-179
DoLetForm ==
    /\ At("do_let_form", "start")
    /\ IF validate_form(Top.expressions, 2, NoMax) # ""
       THEN Raise(SchemeError(validate_form(Top.expressions, 2, NoMax), Top.expressions))
       ELSE Call([Top EXCEPT !.pc = "after_frame"],
                 special_form("make_let_frame", Top.expressions[2], Top.env))
    /\ UNCHANGED <<control, frames>>

\* do_let_form, line 180: the body is evaluated in the frame make_let_frame made
DoLetFormBody ==
    /\ At("do_let_form", "after_frame")
    /\ Call([Top EXCEPT !.pc = "after_call"], eval_all(Top.expressions[3], ret[2]))
    /\ UNCHANGED <<control, frames>>

\* make_let_frame, lines 190-199: the head of the loop; a.expressions holds the
\* bindings not yet evaluated
LetFrameLoop(a) ==
    IF a.expressions = nil
    THEN IF validate_formals(a.names) # ""
         THEN Raise(SchemeError(validate_formals(a.names), a.names)) /\ UNCHANGED frames
         ELSE LET child == make_child_frame(a.names, a.vals) IN
              IF child.err # NoExc
              THEN Raise(child.err) /\ UNCHANGED frames
              ELSE /\ frames' = Append(frames, [bindings |-> child.out, parent |-> a.env])
                   /\ Return(<<"frame", Len(frames) + 1>>)
    ELSE LET binding == a.expressions[2] IN
         /\ UNCHANGED frames
         /\ IF validate_form(binding, 2, 2) # ""
            THEN Raise(SchemeError(validate_form(binding, 2, 2), binding))
            ELSE Call([a EXCEPT !.pc = "after_val"],
                      optimized_eval(binding[3][2], a.env, FALSE))

\* make_let_frame, lines 187-194: entry
MakeLetFrame ==
    /\ At("make_let_frame", "start")
    /\ IF ~scheme_listp(Top.expressions)
       THEN Raise(SchemeError("bad bindings list in let form", "")) /\ UNCHANGED frames
       ELSE LetFrameLoop(Top)
    /\ UNCHANGED control

\* a faulty make_let_frame: names are collected last first, values first first
MakeLetFrameValSwapped ==
    /\ At("make_let_frame", "after_val")
    /\ LET a == Top
           binding == a.expressions[2]
       IN  LetFrameLoop([a EXCEPT !.names = Pair(binding[2], a.names),
                                  !.vals = List(Elems(a.vals) \o <<ret>>),
                                  !.expressions = a.expressions[3]])
    /\ UNCHANGED control

\* make_let_frame, lines 194-199: a binding's value arrived
MakeLetFrameVal ==
    /\ At("make_let_frame", "after_val")
    /\ LET a == Top
           binding == a.expressions[2]
       IN  LetFrameLoop([a EXCEPT !.names = Pair(binding[2], a.names),
                                  !.vals = Pair(ret, a.vals),
                                  !.expressions = a.expressions[3]])
    /\ UNCHANGED control

\* do_define_macro
DoDefineMacro ==
    /\ At("do_define_macro", "start")
    /\ LET a == Top
           expressions == a.expressions
           signature == expressions[2]
       IN  IF validate_form(expressions, 2, NoMax) # ""
           THEN Raise(SchemeError(validate_form(expressions, 2, NoMax), expressions))
                /\ UNCHANGED frames
           ELSE IF IsPair(signature) /\ scheme_symbolp(signature[2])
           THEN IF validate_formals(signature[3]) # ""
                THEN Raise(SchemeError(validate_formals(signature[3]), signature[3]))
                     /\ UNCHANGED frames
                ELSE /\ DefineIn(a.env, signature[2],
                                 MacroProcedure(signature[3], expressions[3], a.env))
                     /\ Return(signature[2])
           ELSE Raise(SchemeError("improper form for define-macro", "")) /\ UNCHANGED frames
    /\ UNCHANGED control

\* do_delay_form
DoDelayForm ==
    /\ At("do_delay_form", "start")
    /\ IF validate_form(Top.expressions, 1, 1) # ""
       THEN /\ Raise(SchemeError(validate_form(Top.expressions, 1, 1), Top.expressions))
            /\ UNCHANGED <<promises, evaluations>>
       ELSE /\ promises' = Append(promises, Promise(Top.expressions[2], Top.env))
            /\ evaluations' = Append(evaluations, 0)
            /\ Return(PromiseRef(Len(promises) + 1))
    /\ UNCHANGED <<host, frames, stack>>

\* do_set_form, lines 282-286
DoSetForm ==
    /\ At("do_set_form", "start")
    /\ LET a == Top
           name == a.expressions[2]
       IN  IF validate_form(a.expressions, 2, NoMax) # ""
           THEN Raise(SchemeError(validate_form(a.expressions, 2, NoMax), a.expressions))
           ELSE IF ~scheme_symbolp(name)
           THEN Raise(SchemeError("bad argument", name))
           ELSE Call([a EXCEPT !.pc = "after_value"],
                     optimized_eval(a.expressions[3][2], a.env, FALSE))
    /\ UNCHANGED <<control, frames>>

\* do_set_form, lines 286-287: the value arrived; env.rebind
DoSetFormValue ==
    /\ At("do_set_form", "after_value")
    /\ LET r == rebind(frames, Top.env, Top.expressions[2], ret) IN
       IF r.err # NoExc
       THEN Raise(r.err) /\ UNCHANGED frames
       ELSE frames' = r.out /\ Return(None)
    /\ UNCHANGED control

\* a faulty quasiquote_item: a nested quasiquote does not raise the level
quasiquote_level_flat(val, level) ==
    IF IsPair(val) /\ val[2] \in {Sym("unquote"), Sym("unquote-splicing")}
    THEN level - 1
    ELSE level

\* quasiquote_item, lines 302-311: the level at which the elements of val are
\* treated
quasiquote_level(val, level) ==
    IF IsPair(val) /\ val[2] \in {Sym("unquote"), Sym("unquote-splicing")}
    THEN level - 1
    ELSE IF IsPair(val) /\ val[2] = Sym("quasiquote")
    THEN level + 1
    ELSE level

\* a new activation of quasiquote_item; rest and mapped are the state of
\* val.flatmap: the elements not yet visited and the values collected so far
quasiquote_item(val, level, env) ==
    [fn |-> "quasiquote_item", pc |-> "start", val |-> val, level |-> level,
     env |-> env, rest |-> nil, mapped |-> <<>>]

\* do_quasiquote_form, lines 293 and 318-321
DoQuasiquoteForm ==
    /\ At("do_quasiquote_form", "start")
    /\ LET expressions == Top.expressions IN
       IF validate_form(expressions, 1, 1) # ""
       THEN Raise(SchemeError(validate_form(expressions, 1, 1), expressions))
       ELSE IF IsPair(expressions[2]) /\ expressions[2][2] = Sym("unquote-splicing")
       THEN Raise(SchemeError("unquote-splicing not in list template", expressions[2]))
       ELSE Call([Top EXCEPT !.pc = "after_item"],
                 quasiquote_item(expressions[2], 1, Top.env))
    /\ UNCHANGED <<control, frames>>

\* do_quasiquote_form, line 321: the first of the values of the template
DoQuasiquoteFormItem ==
    /\ At("do_quasiquote_form", "after_item")
    /\ Return(ret[2])
    /\ UNCHANGED <<control, frames>>

\* Pair.flatmap, line 314: the next element of the list is mapped, or the list
\* of the collected values is returned as the one value of val
FlatmapLoop(a) ==
    IF IsPair(a.rest)
    THEN Call([a EXCEPT !.pc = "mapped"], quasiquote_item(a.rest[2], a.level, a.env))
    ELSE Return(Pair(List(a.mapped), nil))

\* quasiquote_item, lines 299-316
QuasiquoteItem ==
    /\ At("quasiquote_item", "start")
    /\ LET a == Top
           val == a.val
           level == quasiquote_level(val, a.level)
       IN  IF IsPair(val)
           THEN IF val[2] \in {Sym("unquote"), Sym("unquote-splicing")} /\ level = 0
                THEN IF validate_form(val[3], 1, 1) # ""
                     THEN Raise(SchemeError(validate_form(val[3], 1, 1), val[3]))
                     ELSE Call([a EXCEPT !.pc = "evaluated"],
                               optimized_eval(val[3][2], a.env, FALSE))
                ELSE FlatmapLoop([a EXCEPT !.level = level, !.rest = val])
           ELSE Return(Pair(val, nil))
    /\ UNCHANGED <<control, frames>>

\* quasiquote_item, lines 307-311: the value of the unquoted expression arrived
QuasiquoteItemEvaluated ==
    /\ At("quasiquote_item", "evaluated")
    /\ LET evaluated == ret
           splice == Top.val[2] = Sym("unquote-splicing")
       IN  IF splice /\ ~scheme_listp(evaluated)
           THEN Raise(SchemeError("unquote-splicing used on non-list", evaluated))
           ELSE Return(IF splice THEN evaluated ELSE Pair(evaluated, nil))
    /\ UNCHANGED <<control, frames>>

\* Pair.flatmap, line 314: the values of an element arrived and are appended
QuasiquoteItemMapped ==
    /\ At("quasiquote_item", "mapped")
    /\ FlatmapLoop([Top EXCEPT !.mapped = @ \o Elems(ret), !.rest = @[3]])
    /\ UNCHANGED <<control, frames>>

\* do_unquote: unquote and unquote-splicing as operators
DoUnquote ==
    /\ At("do_unquote", "start")
    /\ Raise(SchemeError("unquote outside of quasiquote", ""))
    /\ UNCHANGED <<control, frames>>

----------------------------------------------------------------------------
(* Programs the host hands to the evaluator *)

S(x) == Sym(x)
N(k) == Num(k)
L(s) == List(s)
Quote(x) == L(<<S("quote"), x>>)

Formal(i) == S(<<"a", "b", "c", "d", "e">>[i])
VariadicMarker(name) == L(<<S("variadic"), S(name)>>)

\* ((lambda (a b ... [(variadic rest)]) (list a b ... [rest])) 11 12 ...):
\* k plain formals, with or without a trailing variadic marker, called on j values
CallProgram(k, variadic, j) ==
    LET plain == [i \in 1..k |-> Formal(i)]
        formals == plain \o (IF variadic THEN <<VariadicMarker("rest")>> ELSE <<>>)
        body == <<S("list")>> \o plain \o (IF variadic THEN <<S("rest")>> ELSE <<>>)
    IN  <<L(<<L(<<S("lambda"), L(formals), L(body)>>)>> \o [i \in 1..j |-> N(10 + i)])>>

\* (define (loop n) (if (= n 0) 'done (loop (- n 1)))) (loop n)
TailLoopProgram(n) ==
    << L(<<S("define"), L(<<S("loop"), S("n")>>),
           L(<<S("if"), L(<<S("="), S("n"), N(0)>>), Quote(S("done")),
               L(<<S("loop"), L(<<S("-"), S("n"), N(1)>>)>>)>>)>>),
       L(<<S("loop"), N(n)>>) >>

Incr(x) == L(<<S("set!"), S(x), L(<<S("+"), S(x), N(1)>>)>>)

\* (define n 0) (define p (delay (begin (set! n (+ n 1)) value))) (force p) (force p) n
PromiseProgram(value) ==
    << L(<<S("define"), S("n"), N(0)>>),
       L(<<S("define"), S("p"),
           L(<<S("delay"), L(<<S("begin"), Incr("n"), value>>)>>)>>),
       L(<<S("force"), S("p")>>),
       L(<<S("force"), S("p")>>),
       S("n") >>

\* the promise's value is the list (n)
PromiseOnce == PromiseProgram(L(<<S("list"), S("n")>>))
\* the promise's value is the number n
PromiseNumber == PromiseProgram(S("n"))
\* the promise's value is the unspecified value of (if #f 1)
PromiseUnspecified == PromiseProgram(L(<<S("if"), Bool(FALSE), N(1)>>))
\* the promise's expression forces the promise itself the first time round
PromiseReentrant ==
    PromiseProgram(L(<<S("if"), L(<<S("="), S("n"), N(1)>>),
                       L(<<S("list"), L(<<S("force"), S("p")>>)>>),
                       L(<<S("list"), S("n")>>)>>))
\* the promise's expression fails until zz is defined
PromiseError ==
    SubSeq(PromiseProgram(S("zz")), 1, 3)
      \o <<L(<<S("define"), S("zz"), L(<<S("list"), N(7)>>)>>)>>
      \o SubSeq(PromiseProgram(S("zz")), 3, 5)

\* (define x 1) ((lambda () (set! x 2))) x
SetGlobal ==
    << L(<<S("define"), S("x"), N(1)>>),
       L(<<L(<<S("lambda"), nil, L(<<S("set!"), S("x"), N(2)>>)>>)>>),
       S("x") >>
\* (define x 1) ((lambda (x) (set! x 2)) 0) x
SetLocal ==
    << L(<<S("define"), S("x"), N(1)>>),
       L(<<L(<<S("lambda"), L(<<S("x")>>), L(<<S("set!"), S("x"), N(2)>>)>>), N(0)>>),
       S("x") >>
\* (set! y 3) y
SetUnbound == << L(<<S("set!"), S("y"), N(3)>>), S("y") >>
\* (define x 1) (define y 5)
\* ((lambda (y) ((lambda (z) (set! y (+ z x)) y) 4)) 0) y x
SetMiddle ==
    << L(<<S("define"), S("x"), N(1)>>),
       L(<<S("define"), S("y"), N(5)>>),
       L(<<L(<<S("lambda"), L(<<S("y")>>),
               L(<<L(<<S("lambda"), L(<<S("z")>>),
                       L(<<S("set!"), S("y"), L(<<S("+"), S("z"), S("x")>>)>>),
                       S("y")>>), N(4)>>)>>), N(0)>>),
       S("y"),
       S("x") >>

\* (define x 3) (define h ((lambda (x) (lambda () x)) 5)) ((lambda (x) (h)) 9)
\* ((lambda (x) (+ (h) x)) 9) (((lambda (x) (lambda () x)) 5))
Closure == L(<<L(<<S("lambda"), L(<<S("x")>>), L(<<S("lambda"), nil, S("x")>>)>>), N(5)>>)
LexicalScope ==
    << L(<<S("define"), S("x"), N(3)>>),
       L(<<S("define"), S("h"), Closure>>),
       L(<<L(<<S("lambda"), L(<<S("x")>>), L(<<S("h")>>)>>), N(9)>>),
       L(<<L(<<S("lambda"), L(<<S("x")>>), L(<<S("+"), L(<<S("h")>>), S("x")>>)>>), N(9)>>),
       L(<<Closure>>) >>

\* (define (f) (mu () x)) (define g (f)) ((lambda (x) (g)) 7) ((lambda (x) (+ (g) 1)) 7)
DynamicScope ==
    << L(<<S("define"), L(<<S("f")>>), L(<<S("mu"), nil, S("x")>>)>>),
       L(<<S("define"), S("g"), L(<<S("f")>>)>>),
       L(<<L(<<S("lambda"), L(<<S("x")>>), L(<<S("g")>>)>>), N(7)>>),
       L(<<L(<<S("lambda"), L(<<S("x")>>), L(<<S("+"), L(<<S("g")>>), N(1)>>)>>), N(7)>>) >>

\* (begin (set! x e) x)
SetThen(x, e) == L(<<S("begin"), L(<<S("set!"), S(x), e>>), S(x)>>)

\* (define x 1) (- (begin (set! x (+ x x)) x) (begin (set! x (+ x 3)) x))
\* ((begin (set! x 10) -) x 1) (begin (define y 1) (set! y (+ y y)) (set! y (+ y 3)) y)
\* ((lambda () (set! x 1) (set! x (+ x x)) (set! x (+ x 3)) x))
EvaluationOrder ==
    << L(<<S("define"), S("x"), N(1)>>),
       L(<<S("-"), SetThen("x", L(<<S("+"), S("x"), S("x")>>)),
                   SetThen("x", L(<<S("+"), S("x"), N(3)>>))>>),
       L(<<L(<<S("begin"), L(<<S("set!"), S("x"), N(10)>>), S("-")>>), S("x"), N(1)>>),
       L(<<S("begin"), L(<<S("define"), S("y"), N(1)>>),
           L(<<S("set!"), S("y"), L(<<S("+"), S("y"), S("y")>>)>>),
           L(<<S("set!"), S("y"), L(<<S("+"), S("y"), N(3)>>)>>), S("y")>>),
       L(<<L(<<S("lambda"), nil, L(<<S("set!"), S("x"), N(1)>>),
               L(<<S("set!"), S("x"), L(<<S("+"), S("x"), S("x")>>)>>),
               L(<<S("set!"), S("x"), L(<<S("+"), S("x"), N(3)>>)>>), S("x")>>)>>) >>

\* (define-macro (twice e) (list 'begin e e))
DefineTwice ==
    L(<<S("define-macro"), L(<<S("twice"), S("e")>>),
        L(<<S("list"), Quote(S("begin")), S("e"), S("e")>>)>>)

\* (define x 1) (define-macro (twice e) (list 'begin e e)) (twice (set! x (+ x 1))) x
MacroTwice ==
    << L(<<S("define"), S("x"), N(1)>>), DefineTwice, L(<<S("twice"), Incr("x")>>), S("x") >>

\* (define x 1) (define-macro (getx) 'x) ((lambda (x) (getx)) 7)
\* ((lambda (x) (+ (getx) 1)) 7)
MacroCaller ==
    << L(<<S("define"), S("x"), N(1)>>),
       L(<<S("define-macro"), L(<<S("getx")>>), Quote(S("x"))>>),
       L(<<L(<<S("lambda"), L(<<S("x")>>), L(<<S("getx")>>)>>), N(7)>>),
       L(<<L(<<S("lambda"), L(<<S("x")>>), L(<<S("+"), L(<<S("getx")>>), N(1)>>)>>), N(7)>>) >>

\* (define y 1)
\* ((lambda (y) (define-macro (k e) (list '+ e y)) ((lambda (y) (k y)) 100)) 4)
MacroDefinitionFrame ==
    << L(<<S("define"), S("y"), N(1)>>),
       L(<<L(<<S("lambda"), L(<<S("y")>>),
               L(<<S("define-macro"), L(<<S("k"), S("e")>>),
                   L(<<S("list"), Quote(S("+")), S("e"), S("y")>>)>>),
               L(<<L(<<S("lambda"), L(<<S("y")>>), L(<<S("k"), S("y")>>)>>), N(100)>>)>>),
           N(4)>>) >>

\* (define x 1) (define-macro (twice e) ...)
\* (define-macro (four e) (list 'twice (list 'twice e))) (four (set! x (+ x 1))) x
MacroRecursive ==
    << L(<<S("define"), S("x"), N(1)>>),
       DefineTwice,
       L(<<S("define-macro"), L(<<S("four"), S("e")>>),
           L(<<S("list"), Quote(S("twice")),
               L(<<S("list"), Quote(S("twice")), S("e")>>)>>)>>),
       L(<<S("four"), Incr("x")>>),
       S("x") >>

\* (define x 1) (let ((x 2) (y x)) (list x y)) x (let ((a 1) (b 2)) (- a b))
\* ((lambda (x) (let ((x (+ x 1)) (y x)) (define z 0) (list x y))) 5) a
LetProgram ==
    << L(<<S("define"), S("x"), N(1)>>),
       L(<<S("let"), L(<<L(<<S("x"), N(2)>>), L(<<S("y"), S("x")>>)>>),
           L(<<S("list"), S("x"), S("y")>>)>>),
       S("x"),
       L(<<S("let"), L(<<L(<<S("a"), N(1)>>), L(<<S("b"), N(2)>>)>>),
           L(<<S("-"), S("a"), S("b")>>)>>),
       L(<<L(<<S("lambda"), L(<<S("x")>>),
               L(<<S("let"), L(<<L(<<S("x"), L(<<S("+"), S("x"), N(1)>>)>>),
                                 L(<<S("y"), S("x")>>)>>),
                   L(<<S("define"), S("z"), N(0)>>),
                   L(<<S("list"), S("x"), S("y")>>)>>)>>), N(5)>>),
       S("a") >>

\* the clauses the generated cond forms are made of: (#f 1), (#t 2), (else 3)
ClauseKinds ==
    { L(<<Bool(FALSE), N(1)>>), L(<<Bool(TRUE), N(2)>>), L(<<S("else"), N(3)>>) }

\* (cond clause ...)
CondProgram(clauses) == << L(<<S("cond")>> \o clauses) >>

\* (cond ((= 1 2) 'a) ((= 1 1) 'b) (else 'c)) (cond (5)) (cond (#f 1))
CondExamples ==
    << L(<<S("cond"), L(<<L(<<S("="), N(1), N(2)>>), Quote(S("a"))>>),
                      L(<<L(<<S("="), N(1), N(1)>>), Quote(S("b"))>>),
                      L(<<S("else"), Quote(S("c"))>>)>>),
       L(<<S("cond"), L(<<N(5)>>)>>),
       L(<<S("cond"), L(<<Bool(FALSE), N(1)>>)>>) >>

\* (and) (and 1 #f 2) (or #f 3 4) (or) (and 1 (list 2)) (or #f (list 2)) (if #f 1)
ShortCircuit ==
    << L(<<S("and")>>),
       L(<<S("and"), N(1), Bool(FALSE), N(2)>>),
       L(<<S("or"), Bool(FALSE), N(3), N(4)>>),
       L(<<S("or")>>),
       L(<<S("and"), N(1), L(<<S("list"), N(2)>>)>>),
       L(<<S("or"), Bool(FALSE), L(<<S("list"), N(2)>>)>>),
       L(<<S("if"), Bool(FALSE), N(1)>>) >>

\* the nesting depth of the quasiquote templates
MaxNest == 3

\* the leaves of the templates: a number, a symbol, (+ 1 1) and (list 2 3)
TemplateLeaves ==
    {N(1), S("x"), L(<<S("+"), N(1), N(1)>>), L(<<S("list"), N(2), N(3)>>)}

RECURSIVE Templates(_)
\* the templates nested n deep: (unquote t), (unquote-splicing t),
\* (quasiquote t) and (1 t 3) of the templates nested less deep
Templates(n) ==
    IF n = 0 THEN TemplateLeaves
    ELSE LET T == Templates(n - 1) IN
         T \cup {L(<<S(h), t>>) : h \in {"unquote", "unquote-splicing", "quasiquote"},
                                  t \in T}
           \cup {L(<<N(1), t, N(3)>>) : t \in T}

QuasiquoteDefine == L(<<S("define"), S("x"), N(7)>>)

\* (define x 7) ((lambda (x) (quasiquote t)) 2)
QuasiquoteProgram(t) ==
    << QuasiquoteDefine,
       L(<<L(<<S("lambda"), L(<<S("x")>>), L(<<S("quasiquote"), t>>)>>), N(2)>>) >>

Programs ==
    {CallProgram(k, v, j) : k \in 0..MaxFormals, v \in BOOLEAN, j \in 0..MaxArgs}
    \cup {TailLoopProgram(n) : n \in 0..MaxN}
    \cup {PromiseOnce, PromiseNumber, PromiseUnspecified, PromiseReentrant, PromiseError}
    \cup {SetGlobal, SetLocal, SetUnbound, SetMiddle}
    \cup {LexicalScope, DynamicScope, EvaluationOrder}
    \cup {MacroTwice, MacroCaller, MacroDefinitionFrame, MacroRecursive}
    \cup {LetProgram, CondExamples, ShortCircuit}
    \cup {CondProgram(c) : c \in UNION {[1..m -> ClauseKinds] : m \in 1..MaxClauses}}
    \cup {QuasiquoteProgram(t) : t \in Templates(MaxNest)}

----------------------------------------------------------------------------
(* The host: evaluates the program's expressions one after the other in the
   global frame, and reports each value or error *)

Init ==
    /\ prog \in Programs
    /\ DOTS_ARE_CONS \in BOOLEAN
    /\ idx = 1
    /\ results = <<>>
    /\ pending = FALSE
    /\ frames = <<GlobalFrame>>
    /\ promises = <<>>
    /\ evaluations = <<>>
    /\ stack = <<>>
    /\ pystack = <<>>
    /\ ret = None
    /\ exc = NoExc

\* the host starts the evaluation of the next top-level expression
ReplRead ==
    /\ pystack = <<>> /\ ~pending /\ idx <= Len(prog)
    /\ pystack' = <<optimized_eval(prog[idx], 1, FALSE)>>
    /\ pending' = TRUE
    /\ UNCHANGED <<prog, idx, results, DOTS_ARE_CONS, frames, promises, stack,
                   ret, exc, evaluations>>

\* the evaluation returned: the host records the value
ReplPrint ==
    /\ pystack = <<>> /\ pending /\ exc = NoExc
    /\ results' = Append(results, ret)
    /\ idx' = idx + 1
    /\ pending' = FALSE
    /\ UNCHANGED <<prog, DOTS_ARE_CONS, frames, promises, stack, pystack, ret,
                   exc, evaluations>>

\* the evaluation raised: the host records the error and clears the trace stack
ReplError ==
    /\ pystack = <<>> /\ pending /\ exc # NoExc
    /\ results' = Append(results, exc)
    /\ idx' = idx + 1
    /\ pending' = FALSE
    /\ exc' = NoExc
    /\ stack' = <<>>
    /\ UNCHANGED <<prog, DOTS_ARE_CONS, frames, promises, pystack, ret, evaluations>>

Next ==
    \/ ReplRead \/ ReplPrint \/ ReplError
    \/ OptimizedEvalEnter \/ OptimizedEvalLoop
    \/ SchemeEvalEnter \/ SchemeEvalForm \/ SchemeEvalOperator \/ SchemeEvalOperands
    \/ SchemeEvalApplied \/ SchemeEvalExpanded \/ SchemeEvalReevaluated
    \/ SchemeApplyEnter \/ SchemeApplyReturn
    \/ CompleteApplyEnter \/ CompleteApplyVal \/ CompleteApplyReturn
    \/ EvalAllEnter \/ EvalAllNext
    \/ PromiseEvaluateEnter \/ PromiseEvaluateStore
    \/ DoDefineForm \/ DoDefineFormValue \/ DoQuoteForm \/ DoBeginForm \/ DoFormReturn
    \/ DoLambdaForm \/ DoMuForm \/ DoIfForm \/ DoIfFormBranch
    \/ DoAndForm \/ DoOrForm \/ DoCondForm \/ DoCondFormTest
    \/ DoLetForm \/ DoLetFormBody \/ MakeLetFrame \/ MakeLetFrameVal
    \/ DoDefineMacro \/ DoDelayForm \/ DoSetForm \/ DoSetFormValue
    \/ DoQuasiquoteForm \/ DoQuasiquoteFormItem \/ QuasiquoteItem
    \/ QuasiquoteItemEvaluated \/ QuasiquoteItemMapped \/ DoUnquote

Spec == Init /\ [][Next]_vars

\* the evaluator runs on until the program is finished
FairSpec == Spec /\ WF_vars(Next)

\* every top-level expression of the program has been evaluated and reported
Finished == idx > Len(prog)

----------------------------------------------------------------------------
(* Claims *)

\* the formals of a user-defined procedure end in a variadic marker
EndsInVariadic(formals) ==
    formals # nil /\ scheme_variadic_symbolp(Elems(formals)[len(formals)])

\* scheme_apply is about to bind the arguments of a user-defined procedure
BindingArguments ==
    At("scheme_apply", "start") /\ Tag(Top.procedure) \in {"lambda", "mu", "macro"}

\* what make_child_frame is to bind for formals ending in a variadic marker:
\* each plain formal to the argument at its position, the marker's name to the
\* list of the remaining arguments
VariadicBindings(formals, vals) ==
    LET fs == Elems(formals)
        as == Elems(vals)
        k == Len(fs) - 1
    IN  [x \in {fs[i][2] : i \in 1..k} \cup {scheme_variadic_symbol(fs[k + 1])[2]} |->
            IF x = scheme_variadic_symbol(fs[k + 1])[2]
            THEN List(SubSeq(as, k + 1, Len(as)))
            ELSE as[CHOOSE i \in 1..k : fs[i][2] = x]]

\* C1: for formals that end in a variadic marker and at least as many argument
\* values as plain formals, make_child_frame succeeds, binds each plain formal
\* to the argument at its position and the variadic name to the list of the
\* remaining arguments (nil when none remain); so a procedure whose only formal
\* is variadic yields (11 12 13) on three arguments and () on none.
C1_VariadicBinding ==
    /\ (BindingArguments /\ EndsInVariadic(Top.procedure[2])
            /\ len(Top.args) >= len(Top.procedure[2]) - 1)
        => LET child == make_child_frame(Top.procedure[2], Top.args) IN
           /\ child.err = NoExc
           /\ child.out = VariadicBindings(Top.procedure[2], Top.args)
    /\ \A j \in 0..MaxArgs :
          (prog = CallProgram(0, TRUE, j) /\ Finished)
              => results[1] = L(<<L([i \in 1..j |-> N(10 + i)])>>)

\* C10: for formals without a variadic marker and fewer argument values than
\* formals, make_child_frame fails with "too few arguments to function call",
\* returns no child frame and leaves the parent's bindings unchanged.
C10_TooFewArguments ==
    /\ (BindingArguments /\ ~EndsInVariadic(Top.procedure[2])
            /\ len(Top.args) < len(Top.procedure[2]))
        => make_child_frame(Top.procedure[2], Top.args)
             = Raised(SchemeError("too few arguments to function call", ""))
    /\ \A k \in 0..MaxFormals, j \in 0..MaxArgs :
          (prog = CallProgram(k, FALSE, j) /\ j < k /\ Finished)
              => /\ results[1] = SchemeError("too few arguments to function call", "")
                 /\ Len(frames) = 1
                 /\ frames[1] = GlobalFrame

\* C2 as stated: whatever forces are made on a promise, its expression is
\* evaluated at most once, and exactly once as soon as it has been forced.
C2_EvaluatedExactlyOnce ==
    \A p \in DOMAIN promises :
        /\ evaluations[p] <= 1
        /\ promises[p].expression = None => evaluations[p] = 1

\* a force of promise p that found it forced returns the stored value and
\* changes nothing else
ReturnsStored(p) ==
    /\ ret' = promises[p].value
    /\ pystack' = Below
    /\ UNCHANGED <<frames, promises, evaluations, exc>>

\* C2 amended: a force evaluates the expression only if the promise is unforced
\* when the force starts; once a force has completed (expression = None) the
\* promise stays forced, and every force started afterwards returns the stored
\* value without evaluating anything.  So the expression is evaluated exactly
\* once, and its side effects occur once, when the first force completes
\* without raising and the expression does not force the promise itself.
C2_ForcedPromiseIsNotEvaluatedAgain ==
    /\ [](/\ \A p \in DOMAIN promises :
                promises[p].expression = None => evaluations[p] >= 1
          /\ (prog = PromiseOnce /\ Finished)
                => /\ evaluations = <<1>>
                   /\ results[3] = L(<<N(1)>>)
                   /\ results[4] = L(<<N(1)>>)
                   /\ results[5] = N(1))
    /\ [][/\ \A p \in DOMAIN promises :
                promises[p].expression = None
                    => /\ promises'[p].expression = None
                       /\ evaluations'[p] = evaluations[p]
          /\ (At("Promise.evaluate", "start") /\ promises[Top.self].expression = None)
                => ReturnsStored(Top.self)
          /\ (At("Promise.evaluate", "start") /\ promises[Top.self].expression # None)
                => /\ evaluations'[Top.self] = evaluations[Top.self] + 1
                   /\ pystack'[Len(pystack')].expr = promises[Top.self].expression
                   /\ pystack'[Len(pystack')].env = promises[Top.self].env]_vars

\* a second force of a forced promise has returned the stored value
C2_Witness ==
    /\ prog = PromiseOnce /\ Finished
    /\ promises[1].expression = None
    /\ results[4] = promises[1].value

\* the number of nested invocations of the unwrapped eval
EvalDepth == Cardinality({i \in 1..Len(pystack) : pystack[i].fn = "scheme_eval"})

\* C3: (loop n) with (define (loop n) (if (= n 0) 'done (loop (- n 1))))
\* terminates with the value done for every n, and the number of nested eval
\* invocations during the evaluation stays below a constant independent of n.
C3_TailRecursion ==
    /\ [](\A n \in 0..MaxN :
            prog = TailLoopProgram(n)
                => /\ EvalDepth <= 3
                   /\ Finished => results = <<S("loop"), S("done")>>)
    /\ (\E n \in 0..MaxN : prog = TailLoopProgram(n)) ~> Finished

\* (loop n) has returned done for the largest n
C3_Witness ==
    /\ prog = TailLoopProgram(MaxN) /\ Finished
    /\ results[2] = S("done")

RECURSIVE Chain(_, _)
\* the frames on the chain e -> parent -> ..., nearest first
Chain(fs, e) == IF e = 0 THEN <<>> ELSE <<e>> \o Chain(fs, fs[e].parent)

\* the nearest frame on the chain of e that binds the name, 0 when none does
FirstBinder(fs, e, name) ==
    LET c == Chain(fs, e)
        binders == {i \in 1..Len(c) : name \in DOMAIN fs[c[i]].bindings}
    IN  IF binders = {} THEN 0
        ELSE c[CHOOSE i \in binders : \A j \in binders : i <= j]

\* the heap fs2 is fs with the one binding of name in frame f changed to value
OnlyBindingChanged(fs, fs2, f, name, value) ==
    /\ Len(fs2) = Len(fs)
    /\ \A g \in 1..Len(fs) :
          /\ fs2[g].parent = fs[g].parent
          /\ DOMAIN fs2[g].bindings = DOMAIN fs[g].bindings
          /\ \A x \in DOMAIN fs[g].bindings :
                fs2[g].bindings[x] = IF g = f /\ x = name THEN value
                                     ELSE fs[g].bindings[x]

\* C4: set! changes the binding of the symbol in the nearest frame of the
\* chain that binds it and nothing else; when no frame binds it, it fails with
\* "unknown identifier" and creates no binding.
C4_RebindFirstBinder ==
    /\ [](/\ (prog = SetGlobal /\ Finished) => results[3] = N(2)
          /\ (prog = SetLocal /\ Finished) => results[3] = N(1)
          /\ (prog = SetUnbound /\ Finished)
                => /\ results[1] = SchemeError("unknown identifier", "y")
                   /\ results[2] = SchemeError("unknown identifier", "y")
          /\ (prog = SetMiddle /\ Finished) => (results[3] = N(5) /\ results[4] = N(5)))
    /\ [][At("do_set_form", "after_value")
            => LET name == Top.expressions[2][2]
                   f == FirstBinder(frames, Top.env, name)
               IN  IF f = 0
                   THEN /\ frames' = frames
                        /\ exc' = SchemeError("unknown identifier", name)
                   ELSE /\ OnlyBindingChanged(frames, frames', f, name, ret)
                        /\ exc' = NoExc]_vars

\* set! from inside a procedure has changed the global binding, and set! of an
\* unbound symbol has failed
C4_Witness ==
    \/ (prog = SetGlobal /\ Finished /\ frames[1].bindings["x"] = N(2))
    \/ (prog = SetUnbound /\ Finished /\ "y" \notin DOMAIN frames[1].bindings)

\* C5: the activation frame of a Lambda is a child of the frame captured when
\* the lambda was created, that of a Mu a child of the caller's current frame
\* (the frame the call expression is evaluated in), also for a call in tail
\* position run by the trampoline.
C5_ActivationParent ==
    /\ [](/\ (prog = LexicalScope /\ Finished)
                => (results[3] = N(5) /\ results[4] = N(14) /\ results[5] = N(5))
          /\ (prog = DynamicScope /\ Finished)
                => (results[3] = N(7) /\ results[4] = N(8)))
    /\ [][(BindingArguments /\ Len(frames') = Len(frames) + 1)
            => frames'[Len(frames')].parent =
                  IF Tag(Top.procedure) = "mu"
                  THEN pystack[Len(pystack) - 1].env
                  ELSE Top.procedure[4]]_vars

\* a closure was applied where the caller binds x to another value, and a mu
\* procedure was applied in tail position
C5_Witness ==
    \/ (prog = LexicalScope /\ Len(results) >= 3 /\ results[3] = N(5))
    \/ (prog = DynamicScope /\ Len(results) >= 3 /\ results[3] = N(7))

\* the activation above activation i of the call stack evaluates expr in env,
\* not in tail position
Evaluating(i, expr, env) ==
    /\ pystack[i + 1].fn = "optimized_eval"
    /\ pystack[i + 1].expr = expr
    /\ pystack[i + 1].env = env
    /\ pystack[i + 1].tail = FALSE

\* the value activation i of the call stack is waiting for: still being computed
\* by the activations above it, or just returned and then not an Unevaluated
Complete(i) == i = Len(pystack) => ~IsUnevaluated(ret)

\* C6: in a procedure call the operator is evaluated first, then the operands
\* from left to right, each completely (no Unevaluated is kept as an argument)
\* before the next starts, and the procedure is applied only after all of them;
\* in a sequence each expression is evaluated completely before the next starts.
C6_EvaluationOrder ==
    /\ \A i \in 1..Len(pystack) :
          LET a == pystack[i] IN
          /\ (a.fn = "scheme_eval" /\ a.pc = "after_operator")
                => /\ a.args = <<>>
                   /\ Complete(i)
                   /\ i < Len(pystack) => Evaluating(i, a.expr[2], a.env)
          /\ (a.fn = "scheme_eval" /\ a.pc = "operands")
                => LET rest == Elems(a.expr[3])
                       k == Len(a.args) + 1
                   IN  /\ ~IsUnevaluated(a.procedure)
                       /\ \A j \in 1..Len(a.args) : ~IsUnevaluated(a.args[j])
                       /\ a.operands = List(SubSeq(rest, k + 1, Len(rest)))
                       /\ Complete(i)
                       /\ i < Len(pystack) => Evaluating(i, rest[k], a.env)
          /\ (a.fn = "scheme_eval" /\ a.pc = "after_apply")
                => /\ Len(a.args) = len(a.expr[3])
                   /\ \A j \in 1..Len(a.args) : ~IsUnevaluated(a.args[j])
                   /\ i < Len(pystack)
                        => /\ pystack[i + 1].fn = "scheme_apply"
                           /\ pystack[i + 1].args = List(a.args)
          /\ (a.fn = "eval_all" /\ a.pc = "loop" /\ a.expressions # nil)
                => /\ Complete(i)
                   /\ i < Len(pystack) => pystack[i + 1].tail = FALSE
    /\ (prog = EvaluationOrder /\ Finished)
          => results = <<S("x"), N(-3), N(9), N(5), N(5)>>

\* a call whose operands have side effects on the same variable has returned
C6_Witness ==
    prog = EvaluationOrder /\ Len(results) >= 2 /\ results[2] = N(-3)

\* C7: when the operator evaluates to a Macro no operand is evaluated; the macro
\* is applied to the operand expressions in a child of its definition frame,
\* the result is evaluated completely (it is no Unevaluated), and it is then
\* evaluated as an expression in the caller's environment, its value being the
\* value of the call; an expansion that is a macro call is expanded in turn.
C7_MacroExpansion ==
    /\ [](/\ \A i \in 1..Len(pystack) :
                LET a == pystack[i] IN
                /\ (a.fn = "scheme_eval" /\ a.pc = "after_expand")
                      => /\ a.args = <<>>
                         /\ Complete(i)
                         /\ i < Len(pystack)
                              => /\ pystack[i + 1].fn = "complete_apply"
                                 /\ pystack[i + 1].args = a.expr[3]
                /\ (a.fn = "scheme_eval" /\ a.pc = "after_reeval" /\ i < Len(pystack))
                      => Evaluating(i, a.expr, a.env)
          /\ (prog = MacroTwice /\ Finished) => results[4] = N(3)
          /\ (prog = MacroCaller /\ Finished) => (results[3] = N(7) /\ results[4] = N(8))
          /\ (prog = MacroDefinitionFrame /\ Finished) => results[2] = N(104)
          /\ (prog = MacroRecursive /\ Finished) => results[5] = N(5))
    /\ [][(BindingArguments /\ Tag(Top.procedure) = "macro")
            => /\ Len(frames') = Len(frames) + 1
               /\ frames'[Len(frames')].parent = Top.procedure[4]
               /\ \A k \in 1..len(Top.args) :
                     frames'[Len(frames')].bindings[Elems(Top.procedure[2])[k][2]]
                        = Elems(pystack[Len(pystack) - 2].expr[3])[k]]_vars

\* a macro call with an operand that has a side effect has been expanded and
\* the expansion evaluated
C7_Witness ==
    /\ prog = MacroDefinitionFrame /\ Finished
    /\ results[2] = N(104)

\* C8: every binding expression of a let is evaluated in the outer environment;
\* the body is evaluated in one new child frame of it that binds each name to
\* the value of its own expression, and the let binds nothing in the outer
\* environment.
C8_LetBindings ==
    /\ [](/\ \A i \in 1..Len(pystack) :
                LET a == pystack[i] IN
                (a.fn = "make_let_frame" /\ a.pc = "after_val" /\ i < Len(pystack))
                    => /\ pystack[i - 1].fn = "do_let_form"
                       /\ Evaluating(i, a.expressions[2][3][2], pystack[i - 1].env)
          /\ (prog = LetProgram /\ Finished)
                => /\ results[2] = L(<<N(2), N(1)>>)
                   /\ results[3] = N(1)
                   /\ results[4] = N(-1)
                   /\ results[5] = L(<<N(6), N(5)>>)
                   /\ results[6] = SchemeError("unknown identifier", "a"))
    /\ [][(pystack # <<>> /\ Top.fn = "make_let_frame"
              /\ Len(frames') = Len(frames) + 1)
            => LET let == pystack[Len(pystack) - 1]
                   bindings == Elems(let.expressions[2])
                   child == frames'[Len(frames')]
               IN  /\ SubSeq(frames', 1, Len(frames)) = frames
                   /\ child.parent = let.env
                   /\ DOMAIN child.bindings
                        = {bindings[k][2][2] : k \in 1..Len(bindings)}
                   /\ pystack'[Len(pystack')].fn = "do_let_form"
                   /\ ret' = <<"frame", Len(frames')>>]_vars

\* a let whose second binding expression names the first binding's symbol has
\* been evaluated
C8_Witness ==
    prog = LetProgram /\ Len(results) >= 2 /\ results[2] = L(<<N(2), N(1)>>)

\* the clauses of the program's cond form
Clauses == Elems(prog[1][3])
IsElse(clause) == clause[2] = S("else")
\* an else clause of the cond form is followed by another clause
ElseNotLast == \E i \in 1..(Len(Clauses) - 1) : IsElse(Clauses[i])
FirstElse == CHOOSE i \in 1..Len(Clauses) :
                IsElse(Clauses[i]) /\ \A j \in 1..(i - 1) : ~IsElse(Clauses[j])
ElseMustBeLast == SchemeError("else must be last", "")

\* C9 as stated: a cond in which an else clause is followed by another clause
\* fails with "else must be last", whichever clause's test is true.
C9_ElseMustBeLast ==
    (prog = CondProgram(Clauses) /\ ElseNotLast /\ Finished)
        => results[1] = ElseMustBeLast

\* C9 amended: a cond in which an else clause is followed by another clause
\* fails with "else must be last" when the tests of all the clauses before the
\* else clause are false; when the test of an earlier clause is true, the cond
\* returns the value of that clause and reports no error.
C9_ElseMustBeLastWhenReached ==
    (prog = CondProgram(Clauses) /\ ElseNotLast /\ Finished)
        => IF \A j \in 1..(FirstElse - 1) : is_scheme_false(Clauses[j][2])
           THEN results[1] = ElseMustBeLast
           ELSE results[1] = N(2)

\* a cond whose else clause is reached and is not the last clause has failed
C9_Witness ==
    /\ prog = CondProgram(<<L(<<Bool(FALSE), N(1)>>), L(<<S("else"), N(3)>>),
                            L(<<Bool(TRUE), N(2)>>)>>)
    /\ Finished
    /\ results[1] = ElseMustBeLast

----------------------------------------------------------------------------
(* quasiquote *)

\* the program is a quasiquote program, and its template
IsQuasiquoteProgram == prog[1] = QuasiquoteDefine
Template == Elems(Elems(Elems(prog[2])[1])[3])[2]

Failure == [ok |-> FALSE, vals |-> <<>>]
Values(s) == [ok |-> TRUE, vals |-> s]

RECURSIVE Flatten(_)
Flatten(parts) == IF parts = <<>> THEN <<>> ELSE Head(parts).vals \o Flatten(Tail(parts))

RECURSIVE Expansion(_, _), Value(_)
\* the values an element of a template contributes to the surrounding list at a
\* nesting level, where x is bound to 2
Expansion(val, level) ==
    IF ~IsPair(val) THEN Values(<<val>>)
    ELSE LET head == val[2]
             lowers == head = S("unquote") \/ head = S("unquote-splicing")
             inner == IF lowers THEN level - 1
                      ELSE IF head = S("quasiquote") THEN level + 1
                      ELSE level
         IN  IF lowers /\ inner = 0
             THEN LET v == Value(val[3][2]) IN
                  IF ~v.ok THEN Failure
                  ELSE IF head = S("unquote") THEN v
                  ELSE IF scheme_listp(v.vals[1]) THEN Values(Elems(v.vals[1]))
                  ELSE Failure
             ELSE LET parts == [i \in 1..len(val) |-> Expansion(Elems(val)[i], inner)] IN
                  IF \E i \in 1..len(val) : ~parts[i].ok THEN Failure
                  ELSE Values(<<List(Flatten(parts))>>)
\* the value of an expression the templates are made of, where x is bound to 2:
\* no other list of the templates is a call of a procedure
Value(e) ==
    IF Tag(e) = "num" THEN Values(<<e>>)
    ELSE IF e = S("x") THEN Values(<<N(2)>>)
    ELSE IF e = L(<<S("+"), N(1), N(1)>>) THEN Values(<<N(2)>>)
    ELSE IF e = L(<<S("list"), N(2), N(3)>>) THEN Values(<<L(<<N(2), N(3)>>)>>)
    ELSE IF IsPair(e) /\ e[2] = S("quasiquote")
    THEN IF IsPair(e[3][2]) /\ e[3][2][2] = S("unquote-splicing")
         THEN Failure
         ELSE Expansion(e[3][2], 1)
    ELSE Failure

\* the quasiquote form whose template the quasiquote_item activation i of the
\* call stack belongs to
FormOf(i) ==
    CHOOSE k \in 1..i : /\ pystack[k].fn = "do_quasiquote_form"
                        /\ \A j \in (k + 1)..i : pystack[j].fn = "quasiquote_item"
\* the level of the element activation i treats: 1 at the template, one more
\* inside each enclosing (quasiquote ...), one less inside each enclosing
\* (unquote ...) or (unquote-splicing ...)
NestingLevel(i) ==
    1 + Cardinality({j \in (FormOf(i) + 1)..(i - 1) :
                        pystack[j].val[2] = S("quasiquote")})
      - Cardinality({j \in (FormOf(i) + 1)..(i - 1) :
                        pystack[j].val[2] \in {S("unquote"), S("unquote-splicing")}})

\* C11: quasiquote treats its template at level 1; the elements of a pair
\* headed by quasiquote are treated one level higher, those of a pair headed by
\* unquote or unquote-splicing one level lower, and the argument of an unquote
\* or unquote-splicing is evaluated in env exactly when the lowered level is 0.
\* The value of an unquote replaces the form as one element, the elements of
\* the value of an unquote-splicing, which must be a list (else an error), are
\* inserted in order in the surrounding list, and every other leaf is copied.
\* So (quasiquote (1 (unquote (+ 1 1)) 3)) is (1 2 3),
\* (quasiquote (1 (unquote-splicing (list 2 3)) 3)) is (1 2 3 3), and an unquote
\* inside an inner quasiquote is not evaluated.
C11_Quasiquote ==
    /\ \A i \in 1..Len(pystack) :
          pystack[i].fn = "quasiquote_item"
          => /\ pystack[i].pc = "start" => pystack[i].level = NestingLevel(i)
             /\ pystack[i].pc = "evaluated"
                => /\ pystack[i].val[2] \in {S("unquote"), S("unquote-splicing")}
                   /\ NestingLevel(i) - 1 = 0
                   /\ pystack[i].env = pystack[FormOf(i)].env
             /\ (pystack[i].pc = "mapped"
                 /\ pystack[i].val[2] \in {S("unquote"), S("unquote-splicing")})
                => NestingLevel(i) - 1 # 0
    /\ (IsQuasiquoteProgram /\ Finished)
       => LET v == Value(L(<<S("quasiquote"), Template>>)) IN
          /\ IF v.ok THEN results[2] = v.vals[1] ELSE IsError(results[2])
          /\ Template = L(<<N(1), L(<<S("unquote"), L(<<S("+"), N(1), N(1)>>)>>), N(3)>>)
             => results[2] = L(<<N(1), N(2), N(3)>>)
          /\ Template = L(<<N(1), L(<<S("unquote-splicing"),
                                     L(<<S("list"), N(2), N(3)>>)>>), N(3)>>)
             => results[2] = L(<<N(1), N(2), N(3), N(3)>>)
          /\ Template = L(<<S("quasiquote"), L(<<N(1), L(<<S("unquote"), S("x")>>), N(3)>>)>>)
             => results[2] = Template
          /\ Template = L(<<N(1), L(<<S("unquote-splicing"), S("x")>>), N(3)>>)
             => results[2] = SchemeError("unquote-splicing used on non-list", N(2))

\* a list was spliced into a template, and a template with an unquote inside an
\* inner quasiquote was copied
C11_Witness ==
    /\ IsQuasiquoteProgram /\ Finished
    /\ \/ /\ Template = L(<<N(1), L(<<S("unquote-splicing"),
                                     L(<<S("list"), N(2), N(3)>>)>>), N(3)>>)
          /\ results[2] = L(<<N(1), N(2), N(3), N(3)>>)
       \/ /\ Template = L(<<S("quasiquote"), L(<<N(1), L(<<S("unquote"), S("x")>>), N(3)>>)>>)
          /\ results[2] = Template

----------------------------------------------------------------------------
(* the trace stack *)

\* the evaluations that have pushed their expression and have not returned
Entered == {i \in 1..Len(pystack) : pystack[i].fn = "scheme_eval" /\ pystack[i].pc # "start"}

\* C12: every eval entry pushes its expression on the trace stack and every
\* successful return pops it: while no error is being reported the trace stack
\* holds one entry for each evaluation that has been entered and has not yet
\* returned, so that an evaluation that returns normally leaves the stack as it
\* was when it was entered, and the stack is empty after successful top-level
\* evaluations.
C12_TraceStackBalanced ==
    exc = NoExc
    => /\ Len(stack) = Cardinality(Entered)
       /\ pystack = <<>> => stack = <<>>

----------------------------------------------------------------------------
(* Unevaluated *)

RECURSIVE HoldsUnevaluated(_)
\* the value is an Unevaluated or a pair that holds one
HoldsUnevaluated(v) ==
    \/ IsUnevaluated(v)
    \/ IsPair(v) /\ (HoldsUnevaluated(v[2]) \/ HoldsUnevaluated(v[3]))

\* the running activation is one of fn and returns normally in this step
Returns(fn) ==
    /\ pystack # <<>> /\ Top.fn = fn
    /\ pystack' = Below /\ exc' = NoExc

\* the running activation waits at pc of fn for the value that was just returned
Received(fn, pc) == At(fn, pc)

\* C13: an Unevaluated never leaves the trampoline.  The wrapped eval called
\* with tail = false and complete_apply never return one; no Unevaluated is
\* bound in a frame, stored as the value of a promise, passed as an argument to
\* a procedure, reported to the host, or used as the expansion of a macro; the
\* test of an if or of a cond clause is never one, and and/or receive one only
\* for their last expression, whose value they return whatever its truth.
C13_UnevaluatedNeverEscapes ==
    /\ [][/\ (Returns("optimized_eval") /\ ~Top.tail) => ~IsUnevaluated(ret')
          /\ Returns("complete_apply") => ~IsUnevaluated(ret')]_vars
    /\ [](/\ \A f \in 1..Len(frames) : \A n \in DOMAIN frames[f].bindings :
                ~HoldsUnevaluated(frames[f].bindings[n])
          /\ \A p \in 1..Len(promises) : ~HoldsUnevaluated(promises[p].value)
          /\ \A i \in 1..Len(pystack) :
                pystack[i].fn \in {"scheme_apply", "complete_apply"}
                => ~HoldsUnevaluated(pystack[i].args)
          /\ \A i \in 1..Len(results) : ~HoldsUnevaluated(results[i])
          /\ Received("scheme_eval", "after_expand") => ~HoldsUnevaluated(ret)
          /\ Received("scheme_eval", "after_operator") => ~IsUnevaluated(ret)
          /\ Received("do_if_form", "after_test") => ~IsUnevaluated(ret)
          /\ Received("do_cond_form", "after_test") => ~IsUnevaluated(ret)
          /\ \A fn \in {"do_and_form", "do_or_form"} :
                (Received(fn, "loop") /\ IsUnevaluated(ret)) => Top.expressions = nil)

\* the last expression of an and has come back to do_and_form as an Unevaluated
C13_Witness ==
    /\ prog = ShortCircuit
    /\ Received("do_and_form", "loop") /\ IsUnevaluated(ret)
    /\ Top.expressions = nil

----------------------------------------------------------------------------
(* failing forces *)

NotPairOrNil(value) == SchemeError("result of forcing a promise should be a pair or nil", value)

====
